---- MODULE Spec2Model ----
(***************************************************************************)
(* A model of the Kademlia k-bucket routing table of src/table.go:         *)
(* admission with unfolding and stale-peer eviction, removal, timestamp    *)
(* updates, the nearest-peers lookup and the background liveness loop.     *)
(* The list-backed bucket, the key derivation and the distance sorter are  *)
(* not part of src/table.go; they are modelled from their contracts.       *)
(***************************************************************************)
EXTENDS Integers, Sequences, FiniteSets, TLC

(* ------------------------------ bounds -------------------------------- *)
\* width of a key in bits (the DHT uses 256)
KeyBits == 3
\* number of peer ids the environment may present, the local one included
NumPeers == 4
\* number of peers the callers present while the liveness loop is followed
LoopNumPeers == 1
\* largest bucketsize handed to the constructor
MaxBucketSize == 2
\* the wall clock runs from StartTime to MaxTime
MaxTime == 2
\* and as far as LoopMaxTime while the liveness loop is followed
LoopMaxTime == 3

(* -------------------------- configuration ----------------------------- *)
\* wall-clock reading when the table is constructed; the zero time.Time is 0
StartTime == 1
\* rt.maxLatency
maxLatency == 1
\* rt.maxLastSuccessfulOutboundThreshold
maxLastSuccessfulOutboundThreshold == 0
\* rt.rtRefreshInterval
rtRefreshInterval == 3

PeerIDs == 0 .. (NumPeers - 1)
\* the id of the local peer
localID == 0
Keys == 0 .. (2 ^ KeyBits - 1)
\* timestamps a caller may hand in: the zero time and the clock's readings
Times == {0} \cup (StartTime .. MaxTime)
\* values the latency oracle may report: acceptable and too high
Latencies == {maxLatency, maxLatency + 1}
\* the empty peer.ID ""
NoPeer == -1

VARIABLES
    buckets,      \* rt.buckets: sequence of buckets, a bucket is a sequence of peerInfo
    bucketsize,   \* rt.bucketsize
    now,          \* the wall clock (time.Now())
    last,         \* the last call made on the table, its inputs, results and callbacks
    ctxDone,      \* rt.ctx has been cancelled
    tickC,        \* a tick is waiting in tickr.C
    bg            \* the background goroutine: where it stands and what it holds

vars == <<buckets, bucketsize, now, last, ctxDone, tickC, bg>>

\* what belongs to the liveness loop
loopVars == <<ctxDone, tickC, bg>>

(* ------------------------- keys and distance -------------------------- *)
\* ConvertPeerID hashes a peer id to a key: a fixed injective scrambling
ConvertPeerID(p) == (7 * p + 3) % (2 ^ KeyBits)

RECURSIVE XorBits(_, _, _)
XorBits(a, b, n) ==
    IF n = 0 THEN 0
    ELSE 2 * XorBits(a \div 2, b \div 2, n - 1) + (((a % 2) + (b % 2)) % 2)

\* XOR distance of two keys, read as a big-endian unsigned integer
xorTable == [a \in Keys |-> [b \in Keys |-> XorBits(a, b, KeyBits)]]
xor(a, b) == xorTable[a][b]

RECURSIVE ZeroPrefixLen(_, _)
ZeroPrefixLen(x, n) ==
    IF n = 0 THEN 0
    ELSE IF (x \div (2 ^ (n - 1))) % 2 = 1 THEN 0
    ELSE 1 + ZeroPrefixLen(x, n - 1)

\* number of leading bits two keys share
cplTable == [a \in Keys |-> [b \in Keys |-> ZeroPrefixLen(xorTable[a][b], KeyBits)]]
CommonPrefixLen(a, b) == cplTable[a][b]

\* rt.local
local == ConvertPeerID(localID)

(* ------------------------------ bucket -------------------------------- *)
newPeerInfo(p, t) ==
    [Id |-> p, lastSuccessfulOutboundQuery |-> t, dhtId |-> ConvertPeerID(p)]

newBucket == << >>

\* index of the record of p in bucket b, 0 when there is none
getPeer(b, p) ==
    IF \E i \in 1 .. Len(b) : b[i].Id = p
    THEN CHOOSE i \in 1 .. Len(b) : b[i].Id = p /\ \A j \in 1 .. (i - 1) : b[j].Id # p
    ELSE 0

pushFront(b, pi) == <<pi>> \o b

\* the bucket without the record of p
remove(b, p) ==
    LET i == getPeer(b, p)
    IN  IF i = 0 THEN b ELSE SubSeq(b, 1, i - 1) \o SubSeq(b, i + 1, Len(b))

peerIds(b) == [i \in 1 .. Len(b) |-> b[i].Id]

RECURSIVE SelectInOrder(_, _, _)
SelectInOrder(b, cpl, moved) ==
    IF b = << >> THEN << >>
    ELSE LET rest == SelectInOrder(Tail(b), cpl, moved)
         IN  IF (CommonPrefixLen(Head(b).dhtId, local) > cpl) = moved
             THEN <<Head(b)>> \o rest
             ELSE rest

\* split moves the records sharing more than cpl bits with the local key to
\* a new bucket, in order, and keeps the others
split(b, cpl) ==
    [bucket |-> SelectInOrder(b, cpl, FALSE), newBucket |-> SelectInOrder(b, cpl, TRUE)]

(* --------------------------- routing table ---------------------------- *)
\* longer than any duration the table compares an age with
Forever == LoopMaxTime + rtRefreshInterval + 1

\* time.Since(t); the zero time.Time (0) lies centuries back
Since(t) == IF t = 0 THEN Forever ELSE now - t

bucketIdForPeerIn(bs, p) ==
    LET cpl == CommonPrefixLen(ConvertPeerID(p), local)
    IN  IF cpl >= Len(bs) THEN Len(bs) - 1 ELSE cpl

\* bucket ids are 0-based as in the source; bucketAt reads rt.buckets[i]
bucketAt(bs, i) == bs[i + 1]

bucketIdForPeer(p) == bucketIdForPeerIn(buckets, p)

\* a nextBucket that appends a bucket and moves no record into it
nextBucketKeepAll(bs) == Append(bs, newBucket)

\* a nextBucket that keeps the records split moved and appends the others
nextBucketSwapped(bs) ==
    LET sp == split(bs[Len(bs)], Len(bs) - 1)
    IN  Append([bs EXCEPT ![Len(bs)] = sp.newBucket], sp.bucket)

RECURSIVE nextBucketOf(_)
nextBucketOf(bs) ==
    LET sp == split(bs[Len(bs)], Len(bs) - 1)
        unfolded == Append([bs EXCEPT ![Len(bs)] = sp.bucket], sp.newBucket)
    IN  IF Len(sp.newBucket) >= bucketsize THEN nextBucketOf(unfolded) ELSE unfolded

nextBucket == nextBucketOf(buckets)

\* whether the cascade of nextBucket calls started on bs never ends. Past
\* depth KeyBits no record shares more bits with the local key than the depth,
\* so every further split yields an empty bucket and every further call
\* repeats the test 0 >= rt.bucketsize.
RECURSIVE nextBucketDiverges(_)
nextBucketDiverges(bs) ==
    LET sp == split(bs[Len(bs)], Len(bs) - 1)
        unfolded == Append([bs EXCEPT ![Len(bs)] = sp.bucket], sp.newBucket)
    IN  IF Len(bs) - 1 > KeyBits
        THEN 0 >= bucketsize
        ELSE Len(sp.newBucket) >= bucketsize /\ nextBucketDiverges(unfolded)

RECURSIVE SumLen(_)
SumLen(bs) == IF bs = << >> THEN 0 ELSE Len(Head(bs)) + SumLen(Tail(bs))

Size == SumLen(buckets)

RECURSIVE Flatten(_)
Flatten(bs) == IF bs = << >> THEN << >> ELSE Head(bs) \o Flatten(Tail(bs))

ListPeers == peerIds(Flatten(buckets))

(* ----------------------------- admission ------------------------------ *)
\* a staleness test that also takes a record whose age equals the threshold
IsStaleInclusive(pc) ==
    Since(pc.lastSuccessfulOutboundQuery) >= maxLastSuccessfulOutboundThreshold

\* a record is stale when its age exceeds the eviction threshold
IsStale(pc) == Since(pc.lastSuccessfulOutboundQuery) > maxLastSuccessfulOutboundThreshold

\* a sweep that settles on the last stale record it meets, not the first
lastStale(b) ==
    IF \E i \in 1 .. Len(b) : IsStale(b[i])
    THEN CHOOSE i \in 1 .. Len(b) : IsStale(b[i]) /\ \A j \in (i + 1) .. Len(b) : ~IsStale(b[j])
    ELSE 0

\* index of the first stale record of bucket b in iteration order, 0 if none
firstStale(b) ==
    IF \E i \in 1 .. Len(b) : IsStale(b[i])
    THEN CHOOSE i \in 1 .. Len(b) : IsStale(b[i]) /\ \A j \in 1 .. (i - 1) : ~IsStale(b[j])
    ELSE 0

Outcome(bs, added, err, cbAdded, cbRemoved) ==
    [buckets |-> bs, added |-> added, err |-> err,
     PeerAdded |-> cbAdded, PeerRemoved |-> cbRemoved]

\* an eviction sweep that forgets to remove the stale record it found
evictAndAddNoRemove(bs, bucketID, pi) ==
    LET bucket == bucketAt(bs, bucketID)
    IN  IF firstStale(bucket) # 0
        THEN Outcome([bs EXCEPT ![bucketID + 1] = pushFront(bucket, pi)],
                     TRUE, "nil", <<pi.Id>>, << >>)
        ELSE Outcome(bs, FALSE, "ErrPeerRejectedNoCapacity", << >>, << >>)

\* the eviction sweep of addPeer over the (full) bucket bucketID of bs
evictAndAdd(bs, bucketID, pi) ==
    LET bucket == bucketAt(bs, bucketID)
        i == firstStale(bucket)
    IN  IF i # 0
        THEN Outcome([bs EXCEPT ![bucketID + 1] = pushFront(remove(bucket, bucket[i].Id), pi)],
                     TRUE, "nil", <<pi.Id>>, << >>)
        ELSE Outcome(bs, FALSE, "ErrPeerRejectedNoCapacity", << >>, << >>)

\* addPeer past its two early returns: p is absent and its latency acceptable
admit(p, queryPeer) ==
    LET bucketID == bucketIdForPeer(p)
        bucket == bucketAt(buckets, bucketID)
        lastSuccessfulOutboundQuery == IF queryPeer THEN now ELSE 0
        pi == newPeerInfo(p, lastSuccessfulOutboundQuery)
    IN  IF Len(bucket) < bucketsize
        THEN Outcome([buckets EXCEPT ![bucketID + 1] = pushFront(bucket, pi)],
                     TRUE, "nil", <<p>>, << >>)
        ELSE IF bucketID = Len(buckets) - 1
        THEN LET unfolded == nextBucket
                 newID == bucketIdForPeerIn(unfolded, p)
                 newBkt == bucketAt(unfolded, newID)
             IN  IF Len(newBkt) < bucketsize
                 THEN Outcome([unfolded EXCEPT ![newID + 1] = pushFront(newBkt, pi)],
                              TRUE, "nil", <<p>>, << >>)
                 ELSE evictAndAdd(unfolded, newID, pi)
        ELSE evictAndAdd(buckets, bucketID, pi)

Unchanged(err) == Outcome(buckets, FALSE, err, << >>, << >>)

\* an addPeer that checks the latency before it looks for the peer
addPeerLatencyFirst(p, queryPeer, lat) ==
    IF lat > maxLatency
    THEN Unchanged("ErrPeerRejectedHighLatency")
    ELSE IF getPeer(bucketAt(buckets, bucketIdForPeer(p)), p) # 0
    THEN Unchanged("nil")
    ELSE admit(p, queryPeer)

\* an addPeer that never asks for the latency
addPeerNoLatencyCheck(p, queryPeer, lat) ==
    IF getPeer(bucketAt(buckets, bucketIdForPeer(p)), p) # 0
    THEN Unchanged("nil")
    ELSE admit(p, queryPeer)

\* an addPeer without the early return for a peer that is already there
addPeerNoExistCheck(p, queryPeer, lat) ==
    IF lat > maxLatency
    THEN Unchanged("ErrPeerRejectedHighLatency")
    ELSE admit(p, queryPeer)

\* addPeer on the current table; lat is what the latency oracle reports for p
addPeer(p, queryPeer, lat) ==
    IF getPeer(bucketAt(buckets, bucketIdForPeer(p)), p) # 0
    THEN Unchanged("nil")
    ELSE IF lat > maxLatency
    THEN Unchanged("ErrPeerRejectedHighLatency")
    ELSE admit(p, queryPeer)

\* addPeer reaches its call of nextBucket and the cascade never ends: the
\* goroutine recurses until its stack is exhausted, which ends the program
addPeerOverflows(p, lat) ==
    LET bucketID == bucketIdForPeer(p)
        bucket == bucketAt(buckets, bucketID)
    IN  /\ getPeer(bucket, p) = 0
        /\ lat <= maxLatency
        /\ ~(Len(bucket) < bucketsize)
        /\ bucketID = Len(buckets) - 1
        /\ nextBucketDiverges(buckets)

\* a removePeer that drops the record and fires no callback
removePeerSilent(p) ==
    LET bucketID == bucketIdForPeer(p)
        bucket == bucketAt(buckets, bucketID)
    IN  Outcome([buckets EXCEPT ![bucketID + 1] = remove(bucket, p)],
                FALSE, "nil", << >>, << >>)

\* a removePeer that fires the callback whether or not it found a record
removePeerAlwaysNotifies(p) ==
    LET bucketID == bucketIdForPeer(p)
        bucket == bucketAt(buckets, bucketID)
    IN  Outcome([buckets EXCEPT ![bucketID + 1] = remove(bucket, p)],
                FALSE, "nil", << >>, <<p>>)

\* removePeer on the current table
removePeer(p) ==
    LET bucketID == bucketIdForPeer(p)
        bucket == bucketAt(buckets, bucketID)
    IN  IF getPeer(bucket, p) # 0
        THEN Outcome([buckets EXCEPT ![bucketID + 1] = remove(bucket, p)],
                     FALSE, "nil", << >>, <<p>>)
        ELSE Unchanged("nil")

\* a locked section that removes the peer without asking whether it is connected
evictUnchecked(p, connected) == removePeer(p)

\* the locked section of the liveness loop for a peer whose ping failed: the
\* peer is removed unless the connectedness oracle reports it connected
evictIfDisconnected(p, connected) ==
    IF ~connected THEN removePeer(p) ELSE Unchanged("nil")

(* ------------------------------ lookup -------------------------------- *)
\* insert a peerInfo into a list kept sorted by distance to target
RECURSIVE insertByDistance(_, _, _)
insertByDistance(sorted, pi, target) ==
    IF sorted = << >> THEN <<pi>>
    ELSE IF xor(pi.dhtId, target) < xor(Head(sorted).dhtId, target)
         THEN <<pi>> \o sorted
         ELSE <<Head(sorted)>> \o insertByDistance(Tail(sorted), pi, target)

RECURSIVE sortByDistance(_, _)
sortByDistance(peers, target) ==
    IF peers = << >> THEN << >>
    ELSE insertByDistance(sortByDistance(Tail(peers), target), Head(peers), target)

\* the buckets right of cpl, appended while the sorter is short of count
RECURSIVE appendRight(_, _, _)
appendRight(pds, i, count) ==
    IF i < Len(buckets) /\ Len(pds) < count
    THEN appendRight(pds \o bucketAt(buckets, i), i + 1, count)
    ELSE pds

\* the buckets left of cpl, appended while the sorter is short of count
RECURSIVE appendLeft(_, _, _)
appendLeft(pds, i, count) ==
    IF i >= 0 /\ Len(pds) < count
    THEN appendLeft(pds \o bucketAt(buckets, i), i - 1, count)
    ELSE pds

\* a NearestPeers that returns the candidates in the order it collected them
NearestPeersUnsorted(id, count) ==
    LET c0 == CommonPrefixLen(id, local)
        cpl == IF c0 >= Len(buckets) THEN Len(buckets) - 1 ELSE c0
        collected == appendLeft(appendRight(bucketAt(buckets, cpl), cpl + 1, count),
                                cpl - 1, count)
        cut == IF count < Len(collected) THEN SubSeq(collected, 1, count) ELSE collected
    IN  peerIds(cut)

NearestPeers(id, count) ==
    LET c0 == CommonPrefixLen(id, local)
        cpl == IF c0 >= Len(buckets) THEN Len(buckets) - 1 ELSE c0
        collected == appendLeft(appendRight(bucketAt(buckets, cpl), cpl + 1, count),
                                cpl - 1, count)
        sorted == sortByDistance(collected, id)
        cut == IF count < Len(sorted) THEN SubSeq(sorted, 1, count) ELSE sorted
    IN  peerIds(cut)

\* a Find that returns the nearest peer without comparing it with id
FindNearest(id) ==
    LET srch == NearestPeers(ConvertPeerID(id), 1)
    IN  IF Len(srch) = 0 THEN NoPeer ELSE srch[1]

Find(id) ==
    LET srch == NearestPeers(ConvertPeerID(id), 1)
    IN  IF Len(srch) = 0 \/ srch[1] # id THEN NoPeer ELSE srch[1]

(* ------------------------------ actions ------------------------------- *)
\* The record of a call: what it returned and which callbacks it fired. size
\* and nbuckets are Size() and len(rt.buckets) before the call, lat is what
\* the latency oracle reported when the call consulted it (0 when it did not),
\* connected what the connectedness oracle reported to the liveness loop, and
\* prev is the call it followed back to back (NoPrev when it did not).
NoPrev ==
    [op |-> "idle", p |-> NoPeer, queryPeer |-> FALSE, ret |-> FALSE, size |-> 0,
     PeerAdded |-> << >>, PeerRemoved |-> << >>]

Prev ==
    [op |-> last.op, p |-> last.p, queryPeer |-> last.queryPeer, ret |-> last.ret,
     size |-> last.size, PeerAdded |-> last.PeerAdded, PeerRemoved |-> last.PeerRemoved]

Call(op, p, queryPeer, lat, connected, out) ==
    [op |-> op, p |-> p, queryPeer |-> queryPeer, lat |-> lat, connected |-> connected,
     ret |-> out.added, err |-> out.err,
     PeerAdded |-> out.PeerAdded, PeerRemoved |-> out.PeerRemoved,
     size |-> Size, nbuckets |-> Len(buckets), prev |-> Prev]

NoCall ==
    [op |-> "idle", p |-> NoPeer, queryPeer |-> FALSE, lat |-> 0, connected |-> FALSE,
     ret |-> FALSE, err |-> "nil", PeerAdded |-> << >>, PeerRemoved |-> << >>,
     size |-> 0, nbuckets |-> 0, prev |-> NoPrev]

\* the goroutine at its select statement, holding no snapshot. peers is what
\* is left of the snapshot, its head the peer under examination; at is the
\* time the snapshot was taken (0 outside a sweep); ps, err, connected and
\* PeerRemoved are what the last step of the loop did: the peer it handled,
\* what peerPingFnc returned ("none" when it was not called), what
\* peerConnectednessFnc returned ("unasked" when it was not called) and the
\* callback it fired.
AtSelect ==
    [pc |-> "select", peers |-> << >>, at |-> 0,
     ps |-> NoPeer, err |-> "none", connected |-> "unasked", PeerRemoved |-> << >>]

Init ==
    /\ buckets = <<newBucket>>
    /\ bucketsize \in 1 .. MaxBucketSize
    /\ now = StartTime
    /\ last = NoCall
    /\ ctxDone = FALSE
    /\ tickC = FALSE
    /\ bg = AtSelect

Idle == last.op = "idle"

\* the call never returned: the program died of a stack overflow, and nothing
\* runs any more
Crashed == last.err = "stack overflow"

\* A call is made once the previous result has been taken (Return), or back
\* to back with the previous call: a TryAddPeer on the peer a TryAddPeer just
\* admitted, or a RemovePeer of the peer a TryAddPeer(p, true) just named.
MayRetry(p) == Idle \/ (last.op = "TryAddPeer" /\ last.p = p /\ last.ret)

MayRoundTrip(p) ==
    Idle \/ (last.op = "TryAddPeer" /\ last.p = p /\ last.queryPeer /\ ~Crashed)

TryAddPeer(p, queryPeer, lat) ==
    /\ MayRetry(p)
    /\ IF addPeerOverflows(p, lat)
       THEN /\ buckets' = buckets
            /\ last' = Call("TryAddPeer", p, queryPeer, lat, FALSE, Unchanged("stack overflow"))
       ELSE LET out == addPeer(p, queryPeer, lat)
            IN  /\ buckets' = out.buckets
                /\ last' = Call("TryAddPeer", p, queryPeer,
                                IF out.added \/ out.err # "nil" THEN lat ELSE 0, FALSE, out)
    /\ UNCHANGED <<bucketsize, now, loopVars>>

\* the table after UpdateLastSuccessfulOutboundQuery(p, t)
withLastSuccessfulOutboundQuery(p, t) ==
    LET bucketID == bucketIdForPeer(p)
        bucket == bucketAt(buckets, bucketID)
        i == getPeer(bucket, p)
    IN  IF i # 0
        THEN [buckets EXCEPT ![bucketID + 1][i].lastSuccessfulOutboundQuery = t]
        ELSE buckets

UpdateLastSuccessfulOutboundQuery(p, t) ==
    LET bucketID == bucketIdForPeer(p)
        bucket == bucketAt(buckets, bucketID)
        i == getPeer(bucket, p)
    IN  /\ Idle
        /\ buckets' = withLastSuccessfulOutboundQuery(p, t)
        /\ last' = Call("UpdateLastSuccessfulOutboundQuery", p, FALSE, 0, FALSE,
                        Outcome(buckets, i # 0, "nil", << >>, << >>))
        /\ UNCHANGED <<bucketsize, now, loopVars>>

RemovePeer(p) ==
    LET out == removePeer(p)
    IN  /\ MayRoundTrip(p)
        /\ buckets' = out.buckets
        /\ last' = Call("RemovePeer", p, FALSE, 0, FALSE, out)
        /\ UNCHANGED <<bucketsize, now, loopVars>>

\* the locked section of the liveness loop for a peer whose ping failed:
\* the peer is removed unless the connectedness oracle reports it connected
backgroundEvict(p, connected) ==
    LET out == evictIfDisconnected(p, connected)
    IN  /\ Idle
        /\ buckets' = out.buckets
        /\ last' = Call("background", p, FALSE, 0, connected, out)
        /\ UNCHANGED <<bucketsize, now, loopVars>>

\* the caller takes the result of the call
Return ==
    /\ ~Idle /\ ~Crashed
    /\ last' = NoCall
    /\ UNCHANGED <<buckets, bucketsize, now, loopVars>>

\* the wall clock advances
Tick ==
    /\ Idle
    /\ now < MaxTime
    /\ now' = now + 1
    /\ UNCHANGED <<buckets, bucketsize, last, loopVars>>

Next ==
    \/ \E p \in PeerIDs, q \in BOOLEAN, lat \in Latencies : TryAddPeer(p, q, lat)
    \/ \E p \in PeerIDs, t \in Times : UpdateLastSuccessfulOutboundQuery(p, t)
    \/ \E p \in PeerIDs : RemovePeer(p)
    \/ \E p \in PeerIDs, c \in BOOLEAN : backgroundEvict(p, c)
    \/ Return
    \/ Tick

Spec == Init /\ [][Next]_vars

(* -------------------------- the liveness loop ------------------------- *)
\* The goroutine of background(), step by step, running beside callers that
\* add, update and remove peers. Each caller's call is one step, taken under
\* the table lock; what it returned is not kept here.
LoopPeerIDs == 1 .. LoopNumPeers

\* the callers report a query that succeeded just now, or the zero time
LoopTimes == {0, now}

\* the wall clock advances
Elapse ==
    /\ now < LoopMaxTime
    /\ now' = now + 1
    /\ UNCHANGED <<buckets, bucketsize, last, loopVars>>

CallerTryAddPeer(p, queryPeer) ==
    /\ buckets' = addPeer(p, queryPeer, maxLatency).buckets
    /\ UNCHANGED <<bucketsize, now, last, loopVars>>

CallerUpdate(p, t) ==
    /\ buckets' = withLastSuccessfulOutboundQuery(p, t)
    /\ UNCHANGED <<bucketsize, now, last, loopVars>>

CallerRemovePeer(p) ==
    /\ buckets' = removePeer(p).buckets
    /\ UNCHANGED <<bucketsize, now, last, loopVars>>

\* Close cancels rt.ctx; cancelling a cancelled context does nothing
Close ==
    /\ ctxDone' = TRUE
    /\ UNCHANGED <<buckets, bucketsize, now, last, tickC, bg>>

\* the ticker puts a tick into its channel, which holds one
TickerFires ==
    /\ bg.pc # "done"
    /\ ~tickC
    /\ tickC' = TRUE
    /\ UNCHANGED <<buckets, bucketsize, now, last, ctxDone, bg>>

\* a select that never finds rt.ctx.Done() ready
DoneNeverReady == FALSE

\* the case <-rt.ctx.Done() of the select can proceed
DoneReady == ctxDone

\* a due test that lets every peer through
dueAlways(ps) == TRUE

\* the peer is due for a ping
due(ps) == Since(ps.lastSuccessfulOutboundQuery) > (rtRefreshInterval \div 3)

\* case <-tickr.C: the peers of all buckets are copied under the read lock
LoopSnapshot ==
    /\ bg.pc = "select"
    /\ tickC
    /\ tickC' = FALSE
    /\ bg' = [AtSelect EXCEPT !.pc = "range", !.peers = Flatten(buckets), !.at = now]
    /\ UNCHANGED <<buckets, bucketsize, now, last, ctxDone>>

\* the head of the for loop: the sweep is over, or the next peer is due and
\* its ping starts, or it is not due and is passed over
LoopNextPeer ==
    /\ bg.pc = "range"
    /\ bg' = IF bg.peers = << >> THEN AtSelect
             ELSE IF due(Head(bg.peers))
                  THEN [AtSelect EXCEPT !.pc = "ping", !.peers = bg.peers, !.at = bg.at]
                  ELSE [AtSelect EXCEPT !.pc = "range", !.peers = Tail(bg.peers), !.at = bg.at]
    /\ UNCHANGED <<buckets, bucketsize, now, last, ctxDone, tickC>>

\* peerPingFnc returns, with or without an error
LoopPing(ok) ==
    /\ bg.pc = "ping"
    /\ bg' = IF ok
             THEN [AtSelect EXCEPT !.pc = "range", !.peers = Tail(bg.peers), !.at = bg.at,
                                   !.ps = Head(bg.peers).Id, !.err = "nil"]
             ELSE [AtSelect EXCEPT !.pc = "locked", !.peers = bg.peers, !.at = bg.at,
                                   !.ps = Head(bg.peers).Id, !.err = "error"]
    /\ UNCHANGED <<buckets, bucketsize, now, last, ctxDone, tickC>>

\* the section under the write lock that follows a failed ping
LoopEvict(connected) ==
    LET out == evictIfDisconnected(Head(bg.peers).Id, connected)
    IN  /\ bg.pc = "locked"
        /\ buckets' = out.buckets
        /\ bg' = [AtSelect EXCEPT !.pc = "range", !.peers = Tail(bg.peers), !.at = bg.at,
                                  !.ps = Head(bg.peers).Id, !.err = "error",
                                  !.connected = IF connected THEN "yes" ELSE "no",
                                  !.PeerRemoved = out.PeerRemoved]
        /\ UNCHANGED <<bucketsize, now, last, ctxDone, tickC>>

\* case <-rt.ctx.Done(): the goroutine returns
LoopExit ==
    /\ bg.pc = "select"
    /\ DoneReady
    /\ bg' = [AtSelect EXCEPT !.pc = "done"]
    /\ UNCHANGED <<buckets, bucketsize, now, last, ctxDone, tickC>>

LoopNext ==
    \/ \E p \in LoopPeerIDs, q \in BOOLEAN : CallerTryAddPeer(p, q)
    \/ \E p \in LoopPeerIDs, t \in LoopTimes : CallerUpdate(p, t)
    \/ \E p \in LoopPeerIDs : CallerRemovePeer(p)
    \/ Elapse
    \/ TickerFires
    \/ Close
    \/ LoopSnapshot
    \/ LoopNextPeer
    \/ \E ok \in BOOLEAN : LoopPing(ok)
    \/ \E c \in BOOLEAN : LoopEvict(c)
    \/ LoopExit

\* capacity plays no part in the loop: the table is built with the smallest
\* bucketsize, with which it also unfolds while a sweep is under way
LoopInit == Init /\ bucketsize = 1

LoopSpec == LoopInit /\ [][LoopNext]_vars

\* The goroutine is scheduled and its ping and lock calls return (weak
\* fairness of its steps), the ticker keeps ticking, and a select with both
\* cases ready picks at random, so the Done case is not passed over for
\* ever (strong fairness of LoopExit).
FairSpec ==
    /\ LoopSpec
    /\ WF_vars(TickerFires)
    /\ WF_vars(LoopSnapshot)
    /\ WF_vars(LoopNextPeer)
    /\ WF_vars(\E ok \in BOOLEAN : LoopPing(ok))
    /\ WF_vars(\E c \in BOOLEAN : LoopEvict(c))
    /\ SF_vars(LoopExit)

(* --------------------- any bucketsize the constructor takes ----------- *)
\* NewRoutingTable takes its bucketsize as it comes: zero is accepted too
AnySizeInit ==
    /\ buckets = <<newBucket>>
    /\ bucketsize \in 0 .. MaxBucketSize
    /\ now = StartTime
    /\ last = NoCall
    /\ ctxDone = FALSE
    /\ tickC = FALSE
    /\ bg = AtSelect

AnySizeSpec == AnySizeInit /\ [][Next]_vars

(* ------------------------- table-wide notions ------------------------- *)
Min(a, b) == IF a < b THEN a ELSE b

CPLOf(p) == CommonPrefixLen(ConvertPeerID(p), local)

(* ------------------- a crowd of peers for one bucket ------------------ *)
\* peers whose keys share no leading bit with the local key: they all belong
\* to bucket 0 however far the table is unfolded
FarPeerIDs == {p \in 1 .. (2 ^ KeyBits - 1) : CPLOf(p) = 0}

\* one more of them than the largest bucket holds
CrowdPeerIDs ==
    {p \in FarPeerIDs : Cardinality({q \in FarPeerIDs : q < p}) <= MaxBucketSize}

\* a peer of another bucket
NearPeerID == CHOOSE p \in PeerIDs : p # localID /\ CPLOf(p) > 0

EvictPeerIDs == CrowdPeerIDs \cup {NearPeerID}

\* the environment presents the crowd and the near peer
EvictNext ==
    \/ \E p \in EvictPeerIDs, q \in BOOLEAN, lat \in Latencies : TryAddPeer(p, q, lat)
    \/ \E p \in EvictPeerIDs, t \in Times : UpdateLastSuccessfulOutboundQuery(p, t)
    \/ \E p \in EvictPeerIDs : RemovePeer(p)
    \/ Return
    \/ Tick

EvictSpec == Init /\ [][EvictNext]_vars

\* the positions <<i, j>> of the records of a table
Positions(bs) == UNION {{<<i, j>> : j \in 1 .. Len(bs[i])} : i \in 1 .. Len(bs)}

RecordsOf(bs) == UNION {{bs[i][j] : j \in 1 .. Len(bs[i])} : i \in 1 .. Len(bs)}

IdsOf(bs) == {r.Id : r \in RecordsOf(bs)}

InTable(p) == p \in IdsOf(buckets)

\* the last call was a TryAddPeer that unfolded the last bucket
Unfolded == last.op = "TryAddPeer" /\ Len(buckets) > last.nbuckets

(* ------------------------------- C1 ----------------------------------- *)
\* C1: in every reachable state every peer p of the table sits in bucket
\* min(CommonPrefixLen(key(p), local), m - 1), m the number of buckets.
C1_Assignment ==
    \A ij \in Positions(buckets) :
        ij[1] - 1 = Min(CPLOf(buckets[ij[1]][ij[2]].Id), Len(buckets) - 1)

\* a TryAddPeer has just unfolded the last bucket and the unfolding moved a
\* record other than the new one into a bucket that did not exist before
C1_Witness ==
    /\ Unfolded
    /\ \E ij \in Positions(buckets) :
          ij[1] > last.nbuckets /\ buckets[ij[1]][ij[2]].Id # last.p

(* ------------------------------- C2 ----------------------------------- *)
\* C2: no peer id appears twice in the table, within a bucket or across
\* buckets, so Size() is the number of distinct ids of ListPeers().
C2_Uniqueness ==
    LET ids == ListPeers
    IN  /\ \A i, j \in 1 .. Len(ids) : ids[i] = ids[j] => i = j
        /\ Size = Cardinality({ids[i] : i \in 1 .. Len(ids)})

\* a TryAddPeer of a peer that is already there has returned, several buckets
\* being populated
C2_Witness ==
    /\ last.op = "TryAddPeer" /\ ~last.ret /\ last.err = "nil"
    /\ InTable(last.p)
    /\ Cardinality({ij[1] : ij \in Positions(buckets)}) >= 2

(* ------------------------------- C3 ----------------------------------- *)
\* C3: when a TryAddPeer call has returned, whatever its outcome, every
\* bucket, the last one included, holds at most bucketsize records.
C3_Capacity ==
    last.op = "TryAddPeer" => \A i \in 1 .. Len(buckets) : Len(buckets[i]) <= bucketsize

\* a TryAddPeer has unfolded the last bucket and then admitted its peer into
\* a bucket that was still full, by evicting a stale record
C3_Witness ==
    /\ Unfolded /\ last.ret
    /\ last.size = Size
    /\ \E i \in 1 .. Len(buckets) : Len(buckets[i]) = bucketsize

(* ------------------------------- C4 ----------------------------------- *)
\* C4: the local peer is never admitted: no TryAddPeer(localID, *) returns
\* added = true and the local peer id is in no bucket.
C4_SelfExclusion ==
    /\ ~InTable(localID)
    /\ ~(last.op = "TryAddPeer" /\ last.p = localID /\ last.ret)

(* ------------------------------- C5 ----------------------------------- *)
NoCallback(call) == call.PeerAdded = << >> /\ call.PeerRemoved = << >>

\* C5: TryAddPeer(p, queryPeer) returns (false, nil) exactly when p is in the
\* table at the time of the call, and then mutates nothing (buckets, their
\* order and number, p's timestamp) and fires no callback; a TryAddPeer(p, *)
\* right after one that admitted p returns (false, nil).
C5_AlreadyPresent ==
    [][ last'.op = "TryAddPeer" =>
          /\ (~last'.ret /\ last'.err = "nil") <=> InTable(last'.p)
          /\ InTable(last'.p) => (buckets' = buckets /\ NoCallback(last'))
          /\ (last.op = "TryAddPeer" /\ last.ret /\ last.p = last'.p)
                => (~last'.ret /\ last'.err = "nil")
      ]_vars

\* a TryAddPeer(p, true) made right after the TryAddPeer that admitted p has
\* returned (false, nil) and p's timestamp is not the current time
C5_Witness ==
    /\ last.op = "TryAddPeer" /\ last.queryPeer /\ ~last.ret /\ last.err = "nil"
    /\ last.prev.op = "TryAddPeer" /\ last.prev.ret /\ last.prev.p = last.p
    /\ \E r \in RecordsOf(buckets) : r.Id = last.p /\ r.lastSuccessfulOutboundQuery # now

(* ------------------------------- C6 ----------------------------------- *)
\* C6: for a peer p that is not in the table and whose latency exceeds
\* maxLatency, TryAddPeer(p, *) returns (false, ErrPeerRejectedHighLatency),
\* however full p's bucket is, and leaves the table as it was, firing nothing.
C6_HighLatency ==
    [][ (last'.op = "TryAddPeer" /\ ~InTable(last'.p) /\ last'.lat > maxLatency) =>
          /\ ~last'.ret /\ last'.err = "ErrPeerRejectedHighLatency"
          /\ buckets' = buckets
          /\ NoCallback(last')
      ]_vars

\* a TryAddPeer was rejected for its latency while the bucket of its peer was full
C6_Witness ==
    /\ last.op = "TryAddPeer" /\ last.err = "ErrPeerRejectedHighLatency"
    /\ ~InTable(last.p)
    /\ Cardinality({r \in RecordsOf(buckets) :
                      Min(CPLOf(r.Id), Len(buckets) - 1) = Min(CPLOf(last.p), Len(buckets) - 1)})
         = bucketsize

(* ------------------------------- C7 ----------------------------------- *)
\* the records that share the bucket of p in a table of m buckets
BucketMates(p, m) ==
    {r \in RecordsOf(buckets) : Min(CPLOf(r.Id), m - 1) = Min(CPLOf(p), m - 1)}

Fresh(r) == ~(now - r.lastSuccessfulOutboundQuery > maxLastSuccessfulOutboundThreshold)

\* C7: for a peer p not in the table and of acceptable latency, TryAddPeer
\* returns (false, ErrPeerRejectedNoCapacity) if and only if the bucket of p,
\* resolved against the table as the call leaves it (unfolded or not), holds
\* bucketsize records none of which is stale, and (true, nil) otherwise; a
\* rejection leaves the set of records as it was and fires nothing.
C7_NoCapacity ==
    [][ (last'.op = "TryAddPeer" /\ ~InTable(last'.p) /\ last'.lat <= maxLatency) =>
          LET mates == BucketMates(last'.p, Len(buckets'))
              full == Cardinality(mates) = bucketsize /\ \A r \in mates : Fresh(r)
          IN  /\ full => /\ ~last'.ret /\ last'.err = "ErrPeerRejectedNoCapacity"
                         /\ RecordsOf(buckets') = RecordsOf(buckets)
                         /\ NoCallback(last')
              /\ ~full => (last'.ret /\ last'.err = "nil")
      ]_vars

\* a TryAddPeer unfolded the last bucket and was still rejected for capacity
C7_Witness ==
    /\ Unfolded
    /\ ~last.ret /\ last.err = "ErrPeerRejectedNoCapacity"

(* ------------------------------- C8 ----------------------------------- *)
Count(seq, x) == Cardinality({i \in 1 .. Len(seq) : seq[i] = x})

\* C8: every record that leaves the table (by RemovePeer, by the liveness
\* loop or by the eviction of an admission) comes with exactly one PeerRemoved
\* for its id, and an admission fires PeerAdded for the new peer.
C8_RemovedCallback ==
    [][ /\ \A p \in PeerIDs :
              (p \in IdsOf(buckets) /\ p \notin IdsOf(buckets'))
                 => Count(last'.PeerRemoved, p) = 1
        /\ (last'.op = "TryAddPeer" /\ last'.ret) => last'.PeerAdded = <<last'.p>>
      ]_vars

(* ------------------------------- C9 ----------------------------------- *)
RoundTrip ==
    /\ last.op = "RemovePeer"
    /\ last.prev.op = "TryAddPeer" /\ last.prev.p = last.p /\ last.prev.queryPeer

CallbacksOfPair ==
    [PeerAdded |-> Len(last.prev.PeerAdded) + Len(last.PeerAdded),
     PeerRemoved |-> Len(last.prev.PeerRemoved) + Len(last.PeerRemoved)]

\* C9 as stated: for every table and every peer p, TryAddPeer(p, true)
\* followed at once by RemovePeer(p) restores Size() and fires exactly one
\* PeerAdded and exactly one PeerRemoved.
C9_RoundTripAlways ==
    RoundTrip => /\ Size = last.prev.size
                 /\ CallbacksOfPair = [PeerAdded |-> 1, PeerRemoved |-> 1]

\* C9 amended: when TryAddPeer(p, true) returns added = true and Size() grew
\* by one (p was admitted without an eviction), RemovePeer(p) right after it
\* restores Size() and the two calls fire exactly one PeerAdded and exactly
\* one PeerRemoved, both for p.
C9_RoundTrip ==
    (RoundTrip /\ last.prev.ret /\ last.size = last.prev.size + 1) =>
        /\ Size = last.prev.size
        /\ CallbacksOfPair = [PeerAdded |-> 1, PeerRemoved |-> 1]
        /\ last.prev.PeerAdded = <<last.p>> /\ last.PeerRemoved = <<last.p>>

\* such a round trip has happened on a table that held other peers
C9_Witness ==
    /\ RoundTrip /\ last.prev.ret /\ last.size = last.prev.size + 1
    /\ Size >= 1

(* ------------------------------- C10 ---------------------------------- *)
Dist(p, t) == xor(ConvertPeerID(p), t)

Counts == 1 .. NumPeers

Ascending(out, t) == \A i \in 1 .. (Len(out) - 1) : Dist(out[i], t) <= Dist(out[i + 1], t)

\* out is not empty and no peer of the table is closer to t than its first id
FirstIsNearest(out, t) ==
    /\ Len(out) >= 1
    /\ \A q \in IdsOf(buckets) : Dist(out[1], t) <= Dist(q, t)

\* the bucket the lookup of t starts from
TargetBucket(t) == Min(CommonPrefixLen(t, local), Len(buckets) - 1)

\* no bucket right of the target bucket of t holds a peer
NothingRight(t) ==
    \A i \in 1 .. Len(buckets) : i - 1 > TargetBucket(t) => buckets[i] = << >>

C11_Find ==
    \A id \in PeerIDs : Find(id) = IF InTable(id) THEN id ELSE NoPeer

\* the table holds peers in two buckets or more, and some peer that is not in
\* it has a nearest peer, which Find does not return
C11_Witness ==
    /\ Cardinality({ij[1] : ij \in Positions(buckets)}) >= 2
    /\ \E id \in PeerIDs :
          /\ ~InTable(id)
          /\ Len(NearestPeers(ConvertPeerID(id), 1)) = 1
          /\ Find(id) = NoPeer
    /\ \E id \in PeerIDs : InTable(id) /\ Find(id) = id

(* ------------------------------- C12 ---------------------------------- *)
\* C12: RemovePeer(p) removes the record of p and fires PeerRemoved(p) exactly
\* once when p is in the table, and changes nothing and fires nothing when p
\* is absent; either way the other records, their order and the number of
\* buckets stay as they were; and no step ever makes the table lose a bucket.
C12_RemovePeer ==
    [][ /\ last'.op = "RemovePeer" =>
              /\ InTable(last'.p) =>
                    /\ last'.p \notin IdsOf(buckets')
                    /\ last'.PeerRemoved = <<last'.p>>
              /\ ~InTable(last'.p) => (buckets' = buckets /\ last'.PeerRemoved = << >>)
              /\ last'.PeerAdded = << >>
              /\ Len(buckets') = Len(buckets)
              /\ \A i \in 1 .. Len(buckets) :
                    buckets'[i] = SelectSeq(buckets[i], LAMBDA r : r.Id # last'.p)
        /\ Len(buckets') >= Len(buckets)
      ]_vars

\* a RemovePeer has emptied a bucket that is not the last one
C12_Witness ==
    /\ last.op = "RemovePeer" /\ last.PeerRemoved = <<last.p>>
    /\ Size = last.size - 1
    /\ \E i \in 1 .. (Len(buckets) - 1) :
          buckets[i] = << >> /\ i - 1 = Min(CPLOf(last.p), Len(buckets) - 1)

(* ------------------------------- C16 ---------------------------------- *)
\* C16: as long as a record stays in the table its lastSuccessfulOutboundQuery
\* never moves backward, whatever TryAddPeer and
\* UpdateLastSuccessfulOutboundQuery(p, t) calls are made. (Stated for the
\* records of peers other than the local one.)
C16_TimestampMonotone ==
    [][ \A r \in RecordsOf(buckets), r2 \in RecordsOf(buckets') :
            (r.Id = r2.Id /\ r.Id # localID)
               => r2.lastSuccessfulOutboundQuery >= r.lastSuccessfulOutboundQuery
      ]_vars

(* ------------------------------- C17 ---------------------------------- *)
\* the records of bucket b other than the one of p, in order
Others(b, p) == SelectSeq(b, LAMBDA r : r.Id # p)

\* s is t with at most one record taken out
AtMostOneOut(s, t) ==
    \/ s = t
    \/ \E i \in 1 .. Len(t) : s = SubSeq(t, 1, i - 1) \o SubSeq(t, i + 1, Len(t))

\* C17 as stated: when a TryAddPeer unfolds the last bucket at depth d = m - 1,
\* the records sharing at least d + 1 bits with the local key remain in B[d]
\* and those sharing exactly d bits form the new bucket B[d + 1].
C17_SplitAsStated ==
    Unfolded =>
        LET d == last.nbuckets - 1
        IN  /\ \A i \in 1 .. Len(buckets[d + 1]) :
                  buckets[d + 1][i].Id # last.p => CPLOf(buckets[d + 1][i].Id) >= d + 1
            /\ \A i \in 1 .. Len(buckets[d + 2]) :
                  buckets[d + 2][i].Id # last.p => CPLOf(buckets[d + 2][i].Id) = d

\* C17 amended: when a TryAddPeer unfolds the last bucket at depth d = m - 1,
\* the records sharing exactly d bits with the local key remain in B[d] and
\* those sharing at least d + 1 bits move to the buckets appended after it,
\* each to bucket min(CPL, m' - 1) of the m' buckets the call leaves; the
\* buckets before B[d] are untouched, relative order is kept, and no record is
\* lost or duplicated other than the one stale record the admission may evict
\* from the bucket of the new peer.
C17_Split ==
    [][ (last'.op = "TryAddPeer" /\ Len(buckets') > Len(buckets)) =>
          LET m == Len(buckets)
              m2 == Len(buckets')
              old == buckets[m]
              Dest(j) == SelectSeq(old, LAMBDA r : Min(CPLOf(r.Id), m2 - 1) = j - 1)
              home == Min(CPLOf(last'.p), m2 - 1) + 1
          IN  /\ \A i \in 1 .. (m - 1) : buckets'[i] = buckets[i]
              /\ \A j \in m .. m2 :
                    IF j = home /\ SumLen(buckets') = SumLen(buckets)
                    THEN AtMostOneOut(Others(buckets'[j], last'.p), Dest(j))
                    ELSE Others(buckets'[j], last'.p) = Dest(j)
      ]_vars

\* an unfolding has parted two records of the old last bucket: one stayed in
\* a bucket and the other went to a later one
C17_Witness ==
    /\ Unfolded
    /\ \E i, j \in last.nbuckets .. Len(buckets) :
          /\ i < j
          /\ Others(buckets[i], last.p) # << >>
          /\ Others(buckets[j], last.p) # << >>

(* ------------------------------- C19 ---------------------------------- *)
\* the records of table bs that belong to bucket j (1-based) of a table of m
\* buckets, in the order bs lists them
Belonging(bs, j, m) ==
    SelectSeq(Flatten(bs), LAMBDA r : Min(CPLOf(r.Id), m - 1) = j - 1)

\* C19: when TryAddPeer admits a peer into a bucket that is still full after
\* any unfolding, exactly one record leaves that bucket and it is the first
\* stale one in iteration order; every other record stays where it belongs,
\* in order, the new record is at the front of its bucket and Size() is as
\* before; an admission into a bucket with room removes no record at all.
C19_Eviction ==
    [][ (last'.op = "TryAddPeer" /\ last'.ret) =>
          LET m2 == Len(buckets')
              home == Min(CPLOf(last'.p), m2 - 1) + 1
              was == Belonging(buckets, home, m2)
          IN  IF Len(was) >= bucketsize
              THEN /\ \E i \in 1 .. Len(was) :
                        /\ ~Fresh(was[i])
                        /\ \A j \in 1 .. (i - 1) : Fresh(was[j])
                        /\ Tail(buckets'[home]) = SubSeq(was, 1, i - 1) \o SubSeq(was, i + 1, Len(was))
                   /\ Head(buckets'[home]).Id = last'.p
                   /\ \A j \in 1 .. m2 : j # home => buckets'[j] = Belonging(buckets, j, m2)
                   /\ SumLen(buckets') = SumLen(buckets)
              ELSE /\ RecordsOf(buckets) \subseteq RecordsOf(buckets')
                   /\ Head(buckets'[home]).Id = last'.p
                   /\ SumLen(buckets') = SumLen(buckets) + 1
      ]_vars

\* an admission has evicted a record of a bucket of two or more and a stale
\* record is still in that bucket: the sweep had a choice and took the first
C19_Witness ==
    /\ last.op = "TryAddPeer" /\ last.ret /\ last.size = Size
    /\ LET b == buckets[Min(CPLOf(last.p), Len(buckets) - 1) + 1]
       IN  /\ Len(b) >= 2
           /\ Head(b).Id = last.p
           /\ \E i \in 2 .. Len(b) : ~Fresh(b[i])

(* ------------------------------- C18 ---------------------------------- *)
\* C18: for every bucketsize the constructor accepts and every table, the
\* cascade of nextBucket calls a TryAddPeer starts comes to an end, and it
\* leaves a last bucket of fewer than bucketsize records for the new peer.
C18_UnfoldTerminates ==
    last.op = "TryAddPeer" =>
        /\ ~Crashed
        /\ Unfolded => Len(Others(buckets[Len(buckets)], last.p)) < bucketsize

(* ------------------------------- C13 ---------------------------------- *)
\* a step of the background goroutine
LoopStep == bg' # bg

\* C13: the liveness loop takes a peer out of the table only in its locked
\* section, which it enters after the ping of that peer failed, and only when
\* the connectedness test of that section says the peer is not connected; it
\* then fires PeerRemoved for it. When the test says connected, the table is
\* left as it was and no callback is fired, whatever the callers did between
\* the snapshot and the locked section.
C13_Recheck ==
    [][ LoopStep =>
          /\ buckets' # buckets =>
                /\ bg.pc = "locked" /\ bg.err = "error" /\ bg.ps = Head(bg.peers).Id
                /\ bg'.connected = "no"
                /\ RecordsOf(buckets') = {r \in RecordsOf(buckets) : r.Id # bg.ps}
                /\ bg'.PeerRemoved = <<bg.ps>>
          /\ bg'.connected = "yes" => (buckets' = buckets /\ bg'.PeerRemoved = << >>)
          /\ bg'.PeerRemoved # << >> => bg.ps \in IdsOf(buckets) \ IdsOf(buckets')
      ]_vars

\* the locked section has found connected a peer whose record was refreshed
\* or replaced after the snapshot, and has left it alone
C13_Witness ==
    /\ bg.pc = "range" /\ bg.connected = "yes"
    /\ \E r \in RecordsOf(buckets) :
          r.Id = bg.ps /\ r.lastSuccessfulOutboundQuery = now /\ bg.at < now

(* ------------------------------- C14 ---------------------------------- *)
\* C14: once Close has been called the background goroutine eventually
\* returns, and the cancellation is never undone by a further Close.
C14_CloseStops ==
    /\ ctxDone ~> (bg.pc = "done")
    /\ [][ctxDone => ctxDone']_vars

\* the goroutine has returned although a tick was waiting, the table holding peers
C14_Witness ==
    /\ ctxDone /\ bg.pc = "done" /\ tickC
    /\ SumLen(buckets) >= 1

(* ------------------------------- C15 ---------------------------------- *)
\* C15: after Close the background goroutine removes no peer and fires no
\* PeerRemoved, also when Close comes in the middle of a sweep or while a
\* tick is waiting.
C15_InertAfterClose ==
    [][ (ctxDone /\ LoopStep) => (buckets' = buckets /\ bg'.PeerRemoved = << >>) ]_vars

(* ------------------------------- C20 ---------------------------------- *)
Interval == rtRefreshInterval \div 3

\* a timestamp t is more than a third of the refresh interval old at time at
\* (the zero time always is)
DueAt(t, at) == t = 0 \/ at - t > Interval

\* the record of p in the table is due for a check
DueInTable(p) ==
    \E r \in RecordsOf(buckets) : r.Id = p /\ DueAt(r.lastSuccessfulOutboundQuery, now)

\* the loop has just had a successful ping of p, or has found p connected
Spared(p) ==
    bg.ps = p /\ (bg.err = "nil" \/ bg.connected = "yes")

\* while the table is not closed, a peer of the table that is due for a check
\* is eventually removed, unless it leaves the table or is refreshed by other
\* means, its ping succeeds or it is found connected
C20_Eventually ==
    \A p \in LoopPeerIDs :
        (InTable(p) /\ DueInTable(p) /\ ~ctxDone)
            ~> (~InTable(p) \/ ~DueInTable(p) \/ ctxDone \/ Spared(p))

\* C20 as stated, its second half (the first is C20_Eventually): a peer that
\* was not due for a check when the snapshot was taken is not pinged in that
\* sweep, so a peer being pinged was due at snapshot time.
C20_DueAtSnapshot ==
    bg.pc = "ping" => DueAt(Head(bg.peers).lastSuccessfulOutboundQuery, bg.at)

\* C20 amended: such a peer is eventually removed, and a peer whose snapshot
\* timestamp is not due for a check at the time the sweep reaches it is not
\* pinged in that sweep.
C20_DueWhenReached ==
    /\ C20_Eventually
    /\ [][ (bg'.pc = "ping" /\ bg.pc # "ping")
              => DueAt(Head(bg.peers).lastSuccessfulOutboundQuery, now) ]_vars

\* the loop of a table that is not closed has removed a peer whose ping
\* failed and which was not connected, the next tick already waiting
C20_Witness ==
    /\ ~ctxDone /\ tickC
    /\ bg.pc = "range" /\ bg.connected = "no" /\ bg.PeerRemoved = <<bg.ps>>
    /\ ~InTable(bg.ps)

====
